---------------------------- MODULE Spec2Model ----------------------------
(***************************************************************************)
(* Model of src/app.py: the /detect handler (detect_currency) and its      *)
(* retry helper (call_api_with_retry).                                     *)
(*                                                                         *)
(* One behaviour is one call.  Under Spec the call is a /detect request;   *)
(* under SpecRetry it is a direct call of call_api_with_retry with an      *)
(* arbitrary max_retries.  The upstream service is an oracle: each network *)
(* call draws its outcome (a status of Statuses or a transport failure),   *)
(* and the outcomes drawn so far are recorded in the history variable      *)
(* statuses.                                                               *)
(***************************************************************************)
EXTENDS Integers, Sequences, FiniteSets

(***************************************************************************)
(* Bounds of the model and program constants.                              *)
(***************************************************************************)
\* largest max_retries a direct call of call_api_with_retry is given
MaxBudget == 5
\* cap on the network calls of one behaviour; it never stops the code
\* (see CapNeverBinds), it only keeps a broken retry loop finite
MaxCalls == 5
\* def call_api_with_retry(url, headers, json_payload, max_retries=5)
DefaultMaxRetries == 5

VARIABLES
    apiKey,         \* GEMINI_API_KEY is set (truthy)
    imagePresent,   \* 'image' in request.files
    imageDecodable, \* Image.open / img.save succeed on the uploaded bytes
    caller,         \* who runs call_api_with_retry: "detect_currency" | "direct"
    max_retries,    \* parameter of call_api_with_retry
    pc,             \* phase of the call
    attempt,        \* loop variable of call_api_with_retry
    calls,          \* number of requests.post calls made
    decodes,        \* number of image decode steps made
    sleeps,         \* the sleep_time of every time.sleep, in order
    statuses,       \* the upstream outcome of every requests.post, in order
    trace,          \* every phase entered, in order
    retry_result,   \* how call_api_with_retry was left
    response,       \* what /detect answered
    last_body,      \* the body of the last upstream response that was read
    service,        \* what the upstream service may answer in this behaviour
    other           \* the locals of the call that is not running (SpecConcurrent)

vars == <<apiKey, imagePresent, imageDecodable, caller, max_retries, pc,
          attempt, calls, decodes, sleeps, statuses, trace, retry_result,
          response, last_body, service, other>>

(***************************************************************************)
(* The upstream service.                                                   *)
(***************************************************************************)
\* if e.response.status_code in [429, 500, 502, 503, 504]
RETRYABLE == {429, 500, 502, 503, 504}

\* error statuses outside the retryable list
NonRetryable == {400, 401, 403}

\* statuses for which raise_for_status() does not raise: the success the
\* service documents, and a 3xx that requests hands back as it is
NonError == {200, 304}

\* every status the upstream service may answer with
Statuses == NonError \cup RETRYABLE \cup NonRetryable

\* body of an error response, as e.response.json() sees it
ErrorBodies == {"message",            \* {"error": {"message": "<text>"}}
                "no_error",           \* a JSON object without "error"
                "message_not_string", \* {"error": {"message": null}}
                "error_not_object",   \* {"error": "<text>"}
                "not_json"}           \* e.g. an HTML error page

\* a raw JSON value of the model's answer: its JSON type and its text
Val(t, v) == [t |-> t, v |-> v]
Missing == Val("missing", "")

\* the JSON object inside the answer text
Objects == [denomination    : {Val("int", "100"), Val("str", "100"),
                               Val("str", "null"), Val("null", "null"), Missing},
            full_validation : {Val("bool", "true"), Val("str", "true"),
                               Val("int", "1"), Missing},
            speech_text     : {Val("str", "It is a 100 Rupees note."),
                               Val("str", ""), Missing}]

\* the answer text candidates[0].content.parts[0].text, as a token sequence
Texts == { <<"OBJ">>,
           <<"FENCE_JSON", "WS", "OBJ", "WS", "FENCE">>,
           <<"PROSE">>,
           <<"ARR">>,
           <<"PROSE", "WS", "OBJ">>,
           <<"FENCE_JSON", "WS", "PROSE", "WS", "FENCE">>,
           <<"WS", "PROSE", "WS">> }

\* body of a non-error response: its envelope and the text inside it
NoObject == [denomination |-> Missing, full_validation |-> Missing,
             speech_text |-> Missing]
SuccessBodies ==
    {[envelope |-> e, text |-> <<>>, obj |-> NoObject] :
        e \in {"not_json", "no_candidates"}}
    \cup {[envelope |-> "candidates", text |-> t, obj |-> NoObject] :
        t \in {t \in Texts : \A i \in 1..Len(t) : t[i] # "OBJ"}}
    \cup {[envelope |-> "candidates", text |-> t, obj |-> o] :
        t \in {t \in Texts : \E i \in 1..Len(t) : t[i] = "OBJ"}, o \in Objects}

\* no upstream body has been read yet
NoBody == [envelope |-> "none", text |-> <<>>, obj |-> NoObject]

\* an error response's body, in the shape of the variable last_body
ErrorBody(b) == [envelope |-> b, text |-> <<>>, obj |-> NoObject]

\* what the upstream service answers with in one behaviour: everything of
\* the model ("full"), or a part of it that keeps two interleaved calls small
\* ("small": one success, one retryable and one non-retryable status, with
\* one body of each outcome)
ServiceStatuses(sv) == IF sv = "full" THEN Statuses ELSE {200, 503, 401}

ServiceBodies(sv) ==
    IF sv = "full" THEN SuccessBodies
    ELSE {b \in SuccessBodies :
            \/ b.envelope = "no_candidates"
            \/ b.text = <<"PROSE">>
            \/ /\ b.text = <<"FENCE_JSON", "WS", "OBJ", "WS", "FENCE">>
               /\ b.obj = [denomination |-> Val("int", "100"),
                           full_validation |-> Val("bool", "true"),
                           speech_text |-> Val("str", "It is a 100 Rupees note.")]}

ServiceErrorBodies(sv) ==
    IF sv = "full" THEN ErrorBodies ELSE {"message", "not_json"}

\* the bodies a response of status s can carry: a 304 carries none
BodiesOf(s) == IF s = 200 THEN ServiceBodies(service)
               ELSE {b \in ServiceBodies(service) : b.envelope = "not_json"}

\* one outcome of requests.post: a transport failure or an HTTP response
TransportFailure == [transport |-> TRUE, status |-> 0]
Http(s) == [transport |-> FALSE, status |-> s]

(***************************************************************************)
(* Responses of /detect.                                                   *)
(***************************************************************************)
NoResponse == [kind |-> "none", status |-> 0, has_error |-> FALSE,
               speech_text |-> "", raw_response |-> FALSE, raw_text |-> <<>>,
               result |-> NoObject]

\* jsonify({"error": ..., "speech_text": ...}), status
ErrorResponse(kind, status, speech) ==
    [kind |-> kind, status |-> status, has_error |-> TRUE,
     speech_text |-> speech, raw_response |-> FALSE, raw_text |-> <<>>,
     result |-> NoObject]

\* an exception that leaves detect_currency: the framework answers 500
\* without the handler's JSON body
Unhandled ==
    [kind |-> "unhandled", status |-> 500, has_error |-> FALSE,
     speech_text |-> "", raw_response |-> FALSE, raw_text |-> <<>>,
     result |-> NoObject]

ConfigError ==
    ErrorResponse("config", 500, "Error: API key not configured.")

\* mutant: the missing image is answered as a server error
NoImageErrorAs500 ==
    ErrorResponse("no_image", 500, "Error: No image received.")

NoImageError ==
    ErrorResponse("no_image", 400, "Error: No image received.")

\* mutant: a failure inside the try block is answered as a client error
InternalErrorAs400 ==
    ErrorResponse("exception", 400, "Internal server error.")

\* except Exception as e
InternalError ==
    ErrorResponse("exception", 500, "Internal server error.")

\* mutant: the invalid-JSON answer does not carry the raw text
InvalidJsonErrorWithoutText(raw_text) ==
    [kind |-> "json_decode", status |-> 500, has_error |-> TRUE,
     speech_text |-> "Analysis failed. Server returned unstructured response.",
     raw_response |-> FALSE, raw_text |-> <<>>, result |-> NoObject]

\* except json.JSONDecodeError as e: "raw_response": raw_text
InvalidJsonError(raw_text) ==
    [kind |-> "json_decode", status |-> 500, has_error |-> TRUE,
     speech_text |-> "Analysis failed. Server returned unstructured response.",
     raw_response |-> TRUE, raw_text |-> raw_text, result |-> NoObject]

NoRetryResult == [kind |-> "none", exc |-> "", status |-> 0, line |-> 0]
Returned(s) == [kind |-> "return", exc |-> "", status |-> s, line |-> 52]
Raised(exc, s, line) == [kind |-> "raise", exc |-> exc, status |-> s, line |-> line]


(***************************************************************************)
(* Pure parts of call_api_with_retry.                                      *)
(***************************************************************************)
\* mutant: only server errors raise
RaisesForStatusServerOnly(status) == status >= 500 /\ status < 600

\* response.raise_for_status(): raises HTTPError for 4xx and 5xx
RaisesForStatus(status) == status >= 400 /\ status < 600

\* mutant: the retry gives up one attempt early
ShouldRetryGivesUpEarly(status, a, budget) == status \in RETRYABLE /\ a < budget - 2

\* mutant: the last attempt is not told apart
ShouldRetryUnbounded(status, a, budget) == status \in RETRYABLE

\* e.response.status_code in [429, 500, 502, 503, 504]
\*     and attempt < max_retries - 1
ShouldRetry(status, a, budget) == status \in RETRYABLE /\ a < budget - 1

\* mutant: the backoff is capped at 4 time units
SleepTimeCapped(a) == IF a > 2 THEN 4 ELSE 2 ^ a

\* sleep_time = 2 ** attempt
SleepTime(a) == 2 ^ a

\* mutant: the loop variable does not advance
NextAttemptStuck(a) == a

\* for attempt in range(max_retries): the next value of the loop variable
NextAttempt(a) == a + 1

\* mutant: the loop stops one value early, as range(max_retries - 1) would
InRangeOneShort(a, budget) == a < budget - 1

\* for attempt in range(max_retries): whether the body runs for value a
InRange(a, budget) == a < budget

(***************************************************************************)
(* Pure parts of detect_currency.                                          *)
(***************************************************************************)
\* except requests.exceptions.HTTPError as e: ... return jsonify(...), status_code
\* e.response.json().get('error', {}).get('message', ...) raises when the
\* body is not JSON or its "error" is not an object, and error_detail[:50]
\* raises when the message of a 400 is not sliceable; an exception raised
\* inside the except clause leaves the handler.
HandleHTTPError(status, body) ==
    IF body \in {"not_json", "error_not_object"} THEN Unhandled
    ELSE IF status = 400
         THEN IF body = "message_not_string" THEN Unhandled
              ELSE ErrorResponse("http_error", status, "Bad request. Detail: <error_detail[:50]>...")
    ELSE IF status = 401
         THEN ErrorResponse("http_error", status, "API key error. Check your Gemini key.")
    ELSE IF status = 429
         THEN ErrorResponse("http_error", status, "Rate limit exceeded. Too many requests.")
    ELSE ErrorResponse("http_error", status, "Gemini API Error: <status_code>")

\* str.strip() on a token sequence: drop leading and trailing whitespace
RECURSIVE StripLeft(_)
StripLeft(t) == IF t # <<>> /\ Head(t) = "WS" THEN StripLeft(Tail(t)) ELSE t

RECURSIVE StripRight(_)
StripRight(t) ==
    IF t # <<>> /\ t[Len(t)] = "WS" THEN StripRight(SubSeq(t, 1, Len(t) - 1)) ELSE t

Strip(t) == StripRight(StripLeft(t))

\* str.replace(tok, ''): drop every occurrence of one token
RemoveToken(t, tok) == SelectSeq(t, LAMBDA x : x # tok)

\* raw_text.replace('```json','').replace('```','').strip()
CleanText(raw_text) == Strip(RemoveToken(RemoveToken(raw_text, "FENCE_JSON"), "FENCE"))

\* json.loads(json_text) succeeds: the text is exactly one JSON value
JsonLoads(json_text) == json_text \in {<<"OBJ">>, <<"ARR">>}

\* mutant: the denomination is left as it came
NormalizeNothing(obj) == obj

\* if isinstance(result_json.get('denomination'), int):
\*     result_json['denomination'] = str(result_json['denomination'])
\* (a JSON true/false is an int to isinstance, and str() of it is "True"/"False")
Normalize(obj) ==
    IF obj.denomination.t = "int"
    THEN [obj EXCEPT !.denomination = Val("str", obj.denomination.v)]
    ELSE IF obj.denomination.t = "bool"
    THEN [obj EXCEPT !.denomination =
             Val("str", IF obj.denomination.v = "true" THEN "True" ELSE "False")]
    ELSE obj

\* return jsonify(result_json), 200
SuccessResponse(obj) ==
    [kind |-> "success", status |-> 200, has_error |-> FALSE,
     speech_text |-> obj.speech_text.v, raw_response |-> FALSE, raw_text |-> <<>>,
     result |-> obj]

\* lines 136-154: extract the text, clean it, load it, normalise it
ParseResponse(body) ==
    IF body.envelope # "candidates" THEN InternalError
    ELSE LET raw_text  == Strip(body.text)
             json_text == CleanText(raw_text)
         IN  IF ~JsonLoads(json_text) THEN InvalidJsonError(raw_text)
             ELSE IF json_text = <<"ARR">> THEN InternalError
             ELSE SuccessResponse(Normalize(body.obj))

(***************************************************************************)
(* Initial states.                                                         *)
(***************************************************************************)
\* there is no second call
NoCall == [pc |-> "none"]

InitCommon ==
    /\ attempt = 0
    /\ calls = 0
    /\ decodes = 0
    /\ sleeps = <<>>
    /\ statuses = <<>>
    /\ retry_result = NoRetryResult
    /\ response = NoResponse
    /\ last_body = NoBody

\* a /detect request arrives
Init ==
    /\ apiKey \in BOOLEAN
    /\ imagePresent \in BOOLEAN
    /\ imageDecodable \in BOOLEAN
    /\ caller = "detect_currency"
    /\ max_retries = DefaultMaxRetries
    /\ pc = "Idle"
    /\ trace = <<"Idle">>
    /\ service = "full"
    /\ other = NoCall
    /\ InitCommon

\* call_api_with_retry is called on its own
InitRetry ==
    /\ apiKey = TRUE
    /\ imagePresent = TRUE
    /\ imageDecodable = TRUE
    /\ caller = "direct"
    /\ max_retries \in 0..MaxBudget
    /\ pc = "Called"
    /\ trace = <<"Called">>
    /\ service = "full"
    /\ other = NoCall
    /\ InitCommon

Terminal == {"Success", "Failed", "Returned"}

(***************************************************************************)
(* Leaving and entering the loop of call_api_with_retry.                   *)
(***************************************************************************)
Goto(phase) ==
    /\ pc' = phase
    /\ trace' = Append(trace, phase)

\* an exception leaves call_api_with_retry; in /detect the except clauses
\* of detect_currency turn it into resp
Raise(r, resp) ==
    /\ retry_result' = r
    /\ response' = IF caller = "detect_currency" THEN resp ELSE NoResponse
    /\ Goto("Failed")

\* the loop head for loop value a: run the body, or fall out of the loop
\* to line 61
LoopHead(a) ==
    IF InRange(a, max_retries)
    THEN /\ attempt' = a
         /\ Goto("Sending")
         /\ UNCHANGED <<retry_result, response>>
    ELSE /\ attempt' = attempt
         /\ Raise(Raised("RequestException", 0, 61), InternalError)

(***************************************************************************)
(* Actions of detect_currency before the upstream call.                    *)
(***************************************************************************)
\* if not GEMINI_API_KEY: return ..., 500
ConfigMissing ==
    /\ pc = "Idle"
    /\ ~apiKey
    /\ response' = ConfigError
    /\ Goto("Failed")
    /\ UNCHANGED <<last_body, service, other, apiKey, imagePresent, imageDecodable, caller, max_retries,
                   attempt, calls, decodes, sleeps, statuses, retry_result>>

\* if 'image' not in request.files: return ..., 400
NoImage ==
    /\ pc = "Idle"
    /\ apiKey
    /\ ~imagePresent
    /\ response' = NoImageError
    /\ Goto("Failed")
    /\ UNCHANGED <<last_body, service, other, apiKey, imagePresent, imageDecodable, caller, max_retries,
                   attempt, calls, decodes, sleeps, statuses, retry_result>>

\* mutant: the API key is not checked before the image is handled
StartEncodingNoKeyCheck ==
    /\ pc = "Idle"
    /\ imagePresent
    /\ Goto("Encoding")
    /\ UNCHANGED <<last_body, service, other, apiKey, imagePresent, imageDecodable, caller, max_retries,
                   attempt, calls, decodes, sleeps, statuses, retry_result,
                   response>>

\* image_file = request.files['image']; the try block is entered
StartEncoding ==
    /\ pc = "Idle"
    /\ apiKey
    /\ imagePresent
    /\ Goto("Encoding")
    /\ UNCHANGED <<last_body, service, other, apiKey, imagePresent, imageDecodable, caller, max_retries,
                   attempt, calls, decodes, sleeps, statuses, retry_result,
                   response>>

\* Image.open / img.save raise: except Exception
DecodeFails ==
    /\ pc = "Encoding"
    /\ ~imageDecodable
    /\ decodes' = decodes + 1
    /\ response' = InternalError
    /\ Goto("Failed")
    /\ UNCHANGED <<last_body, service, other, apiKey, imagePresent, imageDecodable, caller, max_retries,
                   attempt, calls, sleeps, statuses, retry_result>>

\* the image is encoded, the payload built, call_api_with_retry entered
EncodeDone ==
    /\ pc = "Encoding"
    /\ imageDecodable
    /\ decodes' = decodes + 1
    /\ LoopHead(0)
    /\ UNCHANGED <<last_body, service, other, apiKey, imagePresent, imageDecodable, caller, max_retries,
                   calls, sleeps, statuses>>

\* call_api_with_retry(url, headers, json_payload, max_retries) called directly
Invoke ==
    /\ pc = "Called"
    /\ LoopHead(0)
    /\ UNCHANGED <<last_body, service, other, apiKey, imagePresent, imageDecodable, caller, max_retries,
                   calls, decodes, sleeps, statuses>>

(***************************************************************************)
(* Actions of call_api_with_retry: one requests.post and what follows it.  *)
(***************************************************************************)
Post(outcome) ==
    /\ pc = "Sending"
    /\ calls < MaxCalls
    /\ calls' = calls + 1
    /\ statuses' = Append(statuses, outcome)

\* the response passes raise_for_status(): return response
PostReturns ==
    \E s \in ServiceStatuses(service) :
        /\ Post(Http(s))
        /\ ~RaisesForStatus(s)
        /\ retry_result' = Returned(s)
        /\ Goto(IF caller = "detect_currency" THEN "ParsingResponse" ELSE "Returned")
        /\ UNCHANGED <<last_body, service, other, apiKey, imagePresent, imageDecodable, caller, max_retries,
                       attempt, decodes, sleeps, response>>

\* HTTPError with a retryable status before the last attempt: time.sleep starts
PostRetries ==
    \E s \in ServiceStatuses(service) :
        /\ Post(Http(s))
        /\ RaisesForStatus(s)
        /\ ShouldRetry(s, attempt, max_retries)
        /\ sleeps' = Append(sleeps, SleepTime(attempt))
        /\ Goto("RetryWait")
        /\ UNCHANGED <<last_body, service, other, apiKey, imagePresent, imageDecodable, caller, max_retries,
                       attempt, decodes, retry_result, response>>

\* HTTPError otherwise: raise; in /detect, except requests.exceptions.HTTPError
PostRaises ==
    \E s \in ServiceStatuses(service), b \in ServiceErrorBodies(service) :
        /\ Post(Http(s))
        /\ RaisesForStatus(s)
        /\ ~ShouldRetry(s, attempt, max_retries)
        /\ last_body' = ErrorBody(b)
        /\ Raise(Raised("HTTPError", s, 60), HandleHTTPError(s, b))
        /\ UNCHANGED <<service, other, apiKey, imagePresent, imageDecodable, caller, max_retries,
                       attempt, decodes, sleeps>>

\* mutant: a transport failure is slept on and retried like a retryable status
PostTransportRetried ==
    /\ Post(TransportFailure)
    /\ sleeps' = Append(sleeps, SleepTime(attempt))
    /\ Goto("RetryWait")
    /\ UNCHANGED <<last_body, service, other, apiKey, imagePresent, imageDecodable,
                   caller, max_retries, attempt, decodes, retry_result, response>>

\* requests.post raises (connection error, timeout): not an HTTPError, so it
\* leaves the loop at once; in /detect, except Exception
PostTransportFails ==
    /\ Post(TransportFailure)
    /\ Raise(Raised("ConnectionError", 0, 50), InternalError)
    /\ UNCHANGED <<last_body, service, other, apiKey, imagePresent, imageDecodable, caller, max_retries,
                   attempt, decodes, sleeps>>

\* time.sleep(sleep_time) ends and the loop goes to its next value
SleepEnds ==
    /\ pc = "RetryWait"
    /\ LoopHead(NextAttempt(attempt))
    /\ UNCHANGED <<last_body, service, other, apiKey, imagePresent, imageDecodable, caller, max_retries,
                   calls, decodes, sleeps, statuses>>

(***************************************************************************)
(* Action of detect_currency after the upstream call returned.             *)
(***************************************************************************)
Parse ==
    \E b \in BodiesOf(retry_result.status) :
        /\ pc = "ParsingResponse"
        /\ last_body' = b
        /\ response' = ParseResponse(b)
        /\ Goto(IF ParseResponse(b).kind = "success" THEN "Success" ELSE "Failed")
        /\ UNCHANGED <<service, other, apiKey, imagePresent, imageDecodable, caller, max_retries,
                       attempt, calls, decodes, sleeps, statuses, retry_result>>

(***************************************************************************)
(* Two /detect calls in flight.  Everything a call works on is a local of  *)
(* detect_currency or call_api_with_retry, or belongs to its own request;  *)
(* the module-level GEMINI_API_KEY is only read.  The variables above hold *)
(* the locals of the call that is running and other holds those of the     *)
(* call that is not; Switch hands the processor to the other call.         *)
(***************************************************************************)
\* the locals of the running call
Locals ==
    [imagePresent |-> imagePresent, imageDecodable |-> imageDecodable,
     caller |-> caller, max_retries |-> max_retries, pc |-> pc,
     attempt |-> attempt, calls |-> calls, decodes |-> decodes,
     sleeps |-> sleeps, statuses |-> statuses, trace |-> trace,
     retry_result |-> retry_result, response |-> response,
     last_body |-> last_body]

\* the locals of a /detect call that has just arrived
NewCall(present, decodable) ==
    [imagePresent |-> present, imageDecodable |-> decodable,
     caller |-> "detect_currency", max_retries |-> DefaultMaxRetries,
     pc |-> "Idle", attempt |-> 0, calls |-> 0, decodes |-> 0,
     sleeps |-> <<>>, statuses |-> <<>>, trace |-> <<"Idle">>,
     retry_result |-> NoRetryResult, response |-> NoResponse,
     last_body |-> NoBody]

\* the running call takes the locals L
Resume(L) ==
    /\ imagePresent' = L.imagePresent
    /\ imageDecodable' = L.imageDecodable
    /\ caller' = L.caller
    /\ max_retries' = L.max_retries
    /\ pc' = L.pc
    /\ calls' = L.calls
    /\ decodes' = L.decodes
    /\ sleeps' = L.sleeps
    /\ statuses' = L.statuses
    /\ trace' = L.trace
    /\ retry_result' = L.retry_result
    /\ response' = L.response
    /\ last_body' = L.last_body

\* mutant: the attempt counter is one module-level variable of both calls
SwitchSharingAttempt ==
    /\ other.pc # "none"
    /\ other' = Locals
    /\ Resume(other)
    /\ UNCHANGED <<attempt, apiKey, service>>

\* the scheduler runs the other call
Switch ==
    /\ other.pc # "none"
    /\ other' = Locals
    /\ Resume(other)
    /\ attempt' = other.attempt
    /\ UNCHANGED <<apiKey, service>>

\* two /detect requests arrive
InitConcurrent ==
    /\ apiKey \in BOOLEAN
    /\ service = "small"
    /\ imagePresent \in BOOLEAN
    /\ imageDecodable \in BOOLEAN
    /\ caller = "detect_currency"
    /\ max_retries = DefaultMaxRetries
    /\ pc = "Idle"
    /\ trace = <<"Idle">>
    /\ InitCommon
    /\ \E present \in BOOLEAN, decodable \in BOOLEAN :
          other = NewCall(present, decodable)

(***************************************************************************)
(* Specifications.                                                         *)
(***************************************************************************)
NextRetry ==
    \/ Invoke
    \/ PostReturns
    \/ PostRetries
    \/ PostRaises
    \/ PostTransportFails
    \/ SleepEnds

Next ==
    \/ ConfigMissing
    \/ NoImage
    \/ StartEncoding
    \/ DecodeFails
    \/ EncodeDone
    \/ PostReturns
    \/ PostRetries
    \/ PostRaises
    \/ PostTransportFails
    \/ SleepEnds
    \/ Parse

\* one /detect call
Spec == Init /\ [][Next]_vars

\* one /detect call in which every network call returns or raises, every
\* sleep ends and the handler keeps running
FairSpec == Init /\ [][Next]_vars /\ WF_vars(Next)

\* two /detect calls, interleaved step by step in every order
NextConcurrent ==
    \/ Next
    \/ Switch

SpecConcurrent == InitConcurrent /\ [][NextConcurrent]_vars

\* one direct call of call_api_with_retry
SpecRetry == InitRetry /\ [][NextRetry]_vars

\* the same with every network call and every sleep ending
FairSpecRetry == InitRetry /\ [][NextRetry]_vars /\ WF_vars(NextRetry)

(***************************************************************************)
(* Helpers of the properties.                                              *)
(***************************************************************************)
\* every outcome of h is an HTTP response with a retryable status
AllRetryable(h) ==
    \A i \in 1..Len(h) : ~h[i].transport /\ h[i].status \in RETRYABLE

\* outcome o is an HTTP error response whose status is not retryable
IsNonRetryable(o) ==
    ~o.transport /\ RaisesForStatus(o.status) /\ o.status \notin RETRYABLE

\* the network-call cap of the model is never what stops a call
CapNeverBinds == pc = "Sending" => calls < MaxCalls

(***************************************************************************)
(* C1: after n retryable statuses, n <= max_retries - 1, the call is still *)
(* running (it has not given up), and when a 200 follows them the call has *)
(* returned that response after exactly n + 1 network calls.               *)
(***************************************************************************)
RetryThenSuccess ==
    /\ (AllRetryable(statuses) /\ Len(statuses) <= max_retries - 1)
          => /\ pc \in {"Called", "Sending", "RetryWait"}
             /\ calls = Len(statuses)
    /\ \A n \in 0..(max_retries - 1) :
          ( /\ Len(statuses) = n + 1
            /\ AllRetryable(SubSeq(statuses, 1, n))
            /\ statuses[n + 1] = Http(200) )
          => /\ pc = "Returned"
             /\ retry_result = Returned(200)
             /\ calls = n + 1

\* the longest such run of the default budget: four retryable statuses, then 200
RetryThenSuccessWitness ==
    /\ max_retries = DefaultMaxRetries
    /\ pc = "Returned"
    /\ calls = max_retries
    /\ AllRetryable(SubSeq(statuses, 1, calls - 1))
    /\ statuses[calls] = Http(200)

(***************************************************************************)
(* C2: the number of network calls never exceeds max_retries, and a run    *)
(* whose max_retries responses were all retryable has failed after exactly *)
(* max_retries calls.                                                      *)
(***************************************************************************)
CallsWithinBudget ==
    /\ calls <= max_retries
    /\ (Len(statuses) >= 1 /\ Len(statuses) = max_retries /\ AllRetryable(statuses))
          => /\ pc = "Failed"
             /\ retry_result.kind = "raise"
             /\ calls = max_retries

\* five retryable statuses under the default budget
CallsWithinBudgetWitness ==
    /\ max_retries = DefaultMaxRetries
    /\ Len(statuses) = max_retries
    /\ AllRetryable(statuses)
    /\ pc = "Failed"

(***************************************************************************)
(* C3: a run in which every one of the max_retries attempts got a          *)
(* retryable status fails with an error kind of its own, not with the kind *)
(* a direct upstream error produces (the HTTPError re-raised at line 60,   *)
(* answered by the except HTTPError clause).                               *)
(***************************************************************************)
ExhaustionIsDistinct ==
    (pc = "Failed" /\ Len(statuses) = max_retries /\ AllRetryable(statuses))
        => /\ retry_result.exc # "HTTPError"
           /\ response.kind # "http_error"

(***************************************************************************)
(* C4: a non-retryable error status is the last outcome of its call: no    *)
(* sleep and no network call follow it, the call has failed, /detect       *)
(* answers with the upstream status code, and when it is the first         *)
(* response exactly one network call was made.                             *)
(***************************************************************************)
NonRetryableAborts ==
    \A i \in 1..Len(statuses) :
        IsNonRetryable(statuses[i])
            => /\ i = Len(statuses)
               /\ calls = i
               /\ Len(sleeps) = i - 1
               /\ pc = "Failed"
               /\ response.status = statuses[i].status

(***************************************************************************)
(* C5, as stated: the wait before attempt k (0-indexed) is 2^k time units. *)
(* sleeps[k] is the one sleep between attempt k - 1 and attempt k.         *)
(***************************************************************************)
BackoffBeforeAttempt ==
    \A k \in 1..Len(sleeps) : sleeps[k] = 2 ^ k

(***************************************************************************)
(* C5, amended: the wait after failed attempt k (that is, before attempt   *)
(* k + 1) is 2^k time units, for every k in 0..max_retries - 2; no wait    *)
(* precedes attempt 0; the successive waits of one run are strictly        *)
(* increasing and uncapped.                                                *)
(***************************************************************************)
BackoffAfterAttempt ==
    /\ \A k \in 0..(Len(sleeps) - 1) : sleeps[k + 1] = 2 ^ k
    /\ \A i \in 1..(Len(sleeps) - 1) : sleeps[i] < sleeps[i + 1]
    /\ pc = "Sending" => Len(sleeps) = attempt
    /\ pc = "RetryWait" => Len(sleeps) = attempt + 1
    /\ Len(sleeps) = 0 \/ Len(sleeps) <= max_retries - 1

\* the last wait of a budget of five or more: 8 time units after attempt 3
BackoffAfterAttemptWitness ==
    /\ pc = "RetryWait"
    /\ attempt = 3
    /\ sleeps = <<1, 2, 4, 8>>

(***************************************************************************)
(* C6: without an API key the call decodes no image and makes no network   *)
(* call, and once handled it has ended with the fixed configuration error, *)
(* whatever the request holds.                                             *)
(***************************************************************************)
ConfigShortCircuit ==
    ~apiKey
        => /\ calls = 0
           /\ decodes = 0
           /\ \A i \in 1..Len(trace) : trace[i] \in {"Idle", "Failed"}
           /\ pc # "Idle" => (pc = "Failed" /\ response = ConfigError)

\* a request with a decodable image, answered with the configuration error
ConfigShortCircuitWitness ==
    /\ ~apiKey
    /\ imagePresent
    /\ imageDecodable
    /\ pc = "Failed"
    /\ response.speech_text = "Error: API key not configured."

(***************************************************************************)
(* C7: with the API key set and no 'image' field, /detect answers 400 with *)
(* an error field and the fixed speech_text, makes no network call and     *)
(* decodes no image.                                                       *)
(***************************************************************************)
NoImageRejected ==
    (apiKey /\ ~imagePresent)
        => /\ calls = 0
           /\ decodes = 0
           /\ pc # "Idle"
                => /\ pc = "Failed"
                   /\ response.status = 400
                   /\ response.has_error
                   /\ response.speech_text = "Error: No image received."

NoImageRejectedWitness ==
    /\ apiKey
    /\ ~imagePresent
    /\ pc = "Failed"
    /\ response.kind = "no_image"

(***************************************************************************)
(* C8: every exit of /detect is a success result or one classified error   *)
(* response carrying both an error field and a speech_text; no exception   *)
(* leaves the handler.                                                     *)
(***************************************************************************)
EveryExitClassified ==
    pc \in {"Success", "Failed"}
        => \/ response.kind = "success" /\ response.status = 200
           \/ /\ response.kind \notin {"success", "unhandled", "none"}
              /\ response.has_error
              /\ response.speech_text # ""

(***************************************************************************)
(* The phase order of one /detect call, common to both readings of C9:     *)
(* the trace starts at Idle and every step is one of                       *)
(* Idle -> Encoding -> Sending -> (RetryWait -> Sending)* ->               *)
(* ParsingResponse -> Success | Failed, or a step to Failed from Idle,     *)
(* Encoding or Sending; so encoding precedes the first send, a RetryWait   *)
(* is followed by a Sending only, Success follows ParsingResponse only,    *)
(* and nothing follows Success or Failed.                                  *)
(***************************************************************************)
PhaseSteps ==
    { <<"Idle", "Encoding">>, <<"Idle", "Failed">>,
      <<"Encoding", "Sending">>, <<"Encoding", "Failed">>,
      <<"Sending", "RetryWait">>, <<"Sending", "ParsingResponse">>,
      <<"Sending", "Failed">>, <<"RetryWait", "Sending">>,
      <<"ParsingResponse", "Success">>, <<"ParsingResponse", "Failed">> }

PhaseShape ==
    /\ trace[1] = "Idle"
    /\ trace[Len(trace)] = pc
    /\ \A i \in 1..(Len(trace) - 1) : <<trace[i], trace[i + 1]>> \in PhaseSteps
    /\ (\E i \in 1..Len(trace) : trace[i] = "Encoding") => (apiKey /\ imagePresent)
    /\ Cardinality({i \in 1..Len(trace) : trace[i] = "Sending"}) = calls
          + (IF pc = "Sending" THEN 1 ELSE 0)
    /\ Cardinality({i \in 1..Len(trace) : trace[i] = "RetryWait"}) = Len(sleeps)

\* ParsingResponse was entered
Parsed == \E i \in 1..Len(trace) : trace[i] = "ParsingResponse"

(***************************************************************************)
(* C9, as stated: the phase order above, with ParsingResponse entered only *)
(* after a 2xx response.                                                   *)
(***************************************************************************)
PhaseOrder2xx ==
    /\ PhaseShape
    /\ Parsed => /\ ~statuses[Len(statuses)].transport
                 /\ statuses[Len(statuses)].status \in 200..299

(***************************************************************************)
(* C9, amended: the phase order above, with ParsingResponse entered only   *)
(* after a response whose status raise_for_status() accepts, that is a     *)
(* status below 400 (a 2xx, or a 3xx handed back as it is).                *)
(***************************************************************************)
PhaseOrder ==
    /\ PhaseShape
    /\ Parsed => /\ ~statuses[Len(statuses)].transport
                 /\ statuses[Len(statuses)].status < 400

\* a call that slept four times, was answered 200 and ended in Success
PhaseOrderWitness ==
    /\ pc = "Success"
    /\ Len(sleeps) = 4
    /\ trace = <<"Idle", "Encoding", "Sending", "RetryWait", "Sending",
                 "RetryWait", "Sending", "RetryWait", "Sending", "RetryWait",
                 "Sending", "ParsingResponse", "Success">>

(***************************************************************************)
(* C10: when every network call returns or raises and every sleep ends,    *)
(* every /detect call reaches Success or Failed.                           *)
(***************************************************************************)
Terminates == <>(pc \in {"Success", "Failed"})

\* a call that used its whole retry budget and then ended
TerminatesWitness ==
    /\ pc \in {"Success", "Failed"}
    /\ calls = max_retries
    /\ Len(sleeps) = max_retries - 1

(***************************************************************************)
(* Helpers of the properties about the parsed answer.                      *)
(***************************************************************************)
\* the /detect call has ended
Done == pc \in {"Success", "Failed"}

\* the answer text is a JSON object wrapped in ```json ... ``` fence markers
FencedObject ==
    /\ last_body.envelope = "candidates"
    /\ last_body.text = <<"FENCE_JSON", "WS", "OBJ", "WS", "FENCE">>

\* the answer text is a JSON object, bare or fenced
ObjectText ==
    /\ last_body.envelope = "candidates"
    /\ last_body.text \in {<<"OBJ">>, <<"FENCE_JSON", "WS", "OBJ", "WS", "FENCE">>}

\* the answer text is not JSON even with its fence markers taken away
NotJsonText ==
    /\ last_body.envelope = "candidates"
    /\ last_body.text \in {<<"PROSE">>, <<"PROSE", "WS", "OBJ">>,
                           <<"FENCE_JSON", "WS", "PROSE", "WS", "FENCE">>,
                           <<"WS", "PROSE", "WS">>}

\* a denomination in the one canonical form: an integer, or null for undetected
CanonicalDenomination(d) == d.t = "int" \/ d = Val("null", "null")

FullValidationBoolean ==
    pc = "Success" => response.result.full_validation.t = "bool"

(***************************************************************************)
(* C13: every success result has a non-empty speech_text; an answer object *)
(* without speech_text (or with an empty one) ends in the malformed-       *)
(* response failure, status 500 with the raw text attached.                *)
(***************************************************************************)
SpeechTextRequired ==
    /\ pc = "Success"
          => /\ response.result.speech_text.t = "str"
             /\ response.result.speech_text.v # ""
             /\ response.speech_text # ""
    /\ (Done /\ ObjectText /\ last_body.obj.speech_text.v = "")
          => /\ pc = "Failed"
             /\ response.status = 500
             /\ response.raw_response

(***************************************************************************)
(* C14: a 2xx response whose text is not JSON ends the call with the       *)
(* malformed-response error: status 500, the raw text (fence markers       *)
(* included, outer whitespace stripped) in the body, and no step, so no    *)
(* network call, after it.                                                 *)
(***************************************************************************)
InvalidJsonNotRetried ==
    (Done /\ NotJsonText)
        => /\ pc = "Failed"
           /\ response.kind = "json_decode"
           /\ response.status = 500
           /\ response.has_error
           /\ response.speech_text # ""
           /\ response.raw_response
           /\ response.raw_text = Strip(last_body.text)
           /\ statuses[Len(statuses)] = Http(200)
           /\ calls = Len(statuses)
           /\ ~ENABLED Next

\* a fenced text that is not JSON, answered after one retry
InvalidJsonNotRetriedWitness ==
    /\ pc = "Failed"
    /\ last_body.envelope = "candidates"
    /\ last_body.text = <<"FENCE_JSON", "WS", "PROSE", "WS", "FENCE">>
    /\ response.raw_text = last_body.text
    /\ calls = 2

(***************************************************************************)
(* C15: when the uploaded bytes cannot be decoded the call ends with a     *)
(* status-500 error response carrying an error field (the exception's      *)
(* text) and a speech_text, and no network call is made.                   *)
(***************************************************************************)
DecodeFailureIs500 ==
    (apiKey /\ imagePresent /\ ~imageDecodable)
        => /\ calls = 0
           /\ statuses = <<>>
           /\ pc \in {"Idle", "Encoding", "Failed"}
           /\ pc = "Failed"
                => /\ response.status = 500
                   /\ response.kind = "exception"
                   /\ response.has_error
                   /\ response.speech_text = "Internal server error."
                   /\ decodes = 1

DecodeFailureIs500Witness ==
    /\ apiKey
    /\ imagePresent
    /\ ~imageDecodable
    /\ pc = "Failed"
    /\ decodes = 1
    /\ response.status = 500

(***************************************************************************)
(* C16.  However two concurrent /detect calls are interleaved, each call's *)
(* attempt counter, backoff waits and final outcome depend only on its own *)
(* input and its own sequence of upstream responses: no call writes state  *)
(* that the other reads, so each call ends as it would when run alone.     *)
(* RunsAsAlone(L) states it of the call whose locals are L: its counter    *)
(* and its waits are functions of the answers it received, it goes on      *)
(* exactly while those answers are retryable and attempts remain, and its  *)
(* outcome is OutcomeAlone(L), computed from its own input and answers.    *)
(***************************************************************************)
\* the response of a finished call, from its own input and upstream answers
OutcomeAlone(L) ==
    IF ~apiKey THEN ConfigError
    ELSE IF ~L.imagePresent THEN NoImageError
    ELSE IF ~L.imageDecodable THEN InternalError
    ELSE LET last == L.statuses[Len(L.statuses)]
         IN  IF last.transport THEN InternalError
             ELSE IF RaisesForStatus(last.status)
                  THEN HandleHTTPError(last.status, L.last_body.envelope)
                  ELSE ParseResponse(L.last_body)

\* the answer number i of the call is one that the call sleeps on and retries
RetriedAnswer(L, i) ==
    /\ ~L.statuses[i].transport
    /\ L.statuses[i].status \in RETRYABLE
    /\ i < L.max_retries

RunsAsAlone(L) ==
    LET n == Len(L.statuses)
    IN  /\ L.calls = n
        /\ \A i \in 1..Len(L.sleeps) : L.sleeps[i] = 2 ^ (i - 1)
        /\ \A i \in 1..(n - 1) : RetriedAnswer(L, i)
        /\ L.pc \in {"Idle", "Encoding"} => n = 0 /\ L.sleeps = <<>>
        /\ L.pc = "Sending" => L.attempt = n /\ Len(L.sleeps) = n
        /\ L.pc = "RetryWait"
              => /\ L.attempt = n - 1
                 /\ Len(L.sleeps) = n
                 /\ RetriedAnswer(L, n)
        /\ L.pc = "ParsingResponse"
              => /\ L.attempt = n - 1
                 /\ Len(L.sleeps) = n - 1
                 /\ ~L.statuses[n].transport
                 /\ ~RaisesForStatus(L.statuses[n].status)
        /\ L.pc \in {"Success", "Failed"}
              => /\ L.response = OutcomeAlone(L)
                 /\ n > 0 => /\ L.attempt = n - 1
                             /\ Len(L.sleeps) = n - 1
                             /\ ~RetriedAnswer(L, n)
                 /\ n = 0 => ~(apiKey /\ L.imagePresent /\ L.imageDecodable)

ConcurrentCallsIsolated ==
    /\ RunsAsAlone(Locals)
    /\ other.pc # "none" => RunsAsAlone(other)

\* both calls are in flight in the middle of their retry loops, each at its
\* own attempt and with its own waits behind it
ConcurrentCallsIsolatedWitness ==
    /\ pc = "RetryWait"
    /\ attempt = 1
    /\ Len(sleeps) = 2
    /\ other.pc = "RetryWait"
    /\ other.attempt = 3
    /\ Len(other.sleeps) = 4

(***************************************************************************)
(* C17: in a terminated run of call_api_with_retry whose network calls all *)
(* returned an HTTP response, the sleeps are one fewer than the calls:     *)
(* each sleep follows a retryable status on a non-final attempt, none      *)
(* follows the last call, and the slept time totals at most                *)
(* 2^(max_retries - 1) - 1.                                                *)
(***************************************************************************)
RECURSIVE SumSeq(_)
SumSeq(q) == IF q = <<>> THEN 0 ELSE Head(q) + SumSeq(Tail(q))

SleepsBetweenCalls ==
    /\ Len(sleeps) <= calls
    /\ \A i \in 1..Len(sleeps) :
          /\ ~statuses[i].transport
          /\ statuses[i].status \in RETRYABLE
          /\ i <= max_retries - 1
    /\ ( /\ pc \in {"Returned", "Failed"}
         /\ calls >= 1
         /\ \A i \in 1..Len(statuses) : ~statuses[i].transport )
          => /\ Len(sleeps) = calls - 1
             /\ SumSeq(sleeps) <= 2 ^ (max_retries - 1) - 1

\* the default budget used up: five calls, four sleeps, 15 time units slept
SleepsBetweenCallsWitness ==
    /\ max_retries = DefaultMaxRetries
    /\ pc = "Failed"
    /\ calls = 5
    /\ Len(sleeps) = 4
    /\ SumSeq(sleeps) = 15
    /\ \A i \in 1..Len(statuses) : ~statuses[i].transport

(***************************************************************************)
(* C18: a transport failure of a network call is the last outcome of its   *)
(* call, on whichever attempt: no sleep and no network call follow it, and *)
(* /detect ends with the generic status-500 internal-error response.       *)
(***************************************************************************)
TransportFailureNotRetried ==
    \A i \in 1..Len(statuses) :
        statuses[i].transport
            => /\ i = Len(statuses)
               /\ calls = i
               /\ Len(sleeps) = i - 1
               /\ pc = "Failed"
               /\ retry_result = Raised("ConnectionError", 0, 50)
               /\ response = InternalError
               /\ ~ENABLED Next

\* a transport failure on the third attempt
TransportFailureNotRetriedWitness ==
    /\ pc = "Failed"
    /\ Len(statuses) = 3
    /\ statuses[3].transport
    /\ Len(sleeps) = 2
    /\ response.status = 500

(***************************************************************************)
(* C19: the raise after the loop (line 61) is reached exactly when         *)
(* max_retries <= 0, and then no network call was made; with               *)
(* max_retries >= 1 every run leaves from inside the loop, by returning a  *)
(* response (line 52) or by an exception of its last attempt (lines 50,    *)
(* 60).                                                                    *)
(***************************************************************************)
LoopExitUnreachable ==
    /\ retry_result.line = 61 => (max_retries <= 0 /\ calls = 0)
    /\ (max_retries <= 0 /\ pc # "Called")
          => /\ pc = "Failed"
             /\ retry_result = Raised("RequestException", 0, 61)
             /\ calls = 0
    /\ (max_retries >= 1 /\ pc \in {"Returned", "Failed"})
          => /\ calls >= 1
             /\ \/ retry_result.kind = "return" /\ retry_result.line = 52
                \/ retry_result.kind = "raise" /\ retry_result.line \in {50, 60}

\* the one way to line 61: a budget of zero
LoopExitUnreachableWitness ==
    /\ max_retries = 0
    /\ pc = "Failed"
    /\ retry_result.line = 61
    /\ calls = 0

=============================================================================
